---- MODULE Spec2Model ----
(***************************************************************************)
(* Model of mars/services/web/supervisor.py: the WebActor lifecycle        *)
(* (__init__, __post_create__, __pre_destroy__, get_web_address) and the   *)
(* BokehStaticFileHandler root selection.                                  *)
(*                                                                         *)
(* Python strings are sequences of one-character strings, so that          *)
(* str.replace, str.rsplit, the `in` test and path normalisation are       *)
(* computed character by character.  Python dicts are sequences of         *)
(* <<key, value>> pairs with unique keys, in insertion order.              *)
(***************************************************************************)
EXTENDS Integers, Sequences, FiniteSets, TLC

(* ------------------------------ bounds -------------------------------- *)

\* longest extra_discovery_modules list explored
MaxMods == 2

\* longest requested static path explored, in tokens of PathTokens
MaxPathTokens == 3

\* most WebActor instances created one after the other in one process
MaxInstances == 2

(* --------------------------- string helpers --------------------------- *)

RECURSIVE Flatten(_)
\* concatenation of a sequence of strings
Flatten(ss) == IF ss = <<>> THEN <<>> ELSE Head(ss) \o Flatten(Tail(ss))

\* s.startswith(prefix)
StartsWith(s, prefix) ==
    /\ Len(prefix) <= Len(s)
    /\ SubSeq(s, 1, Len(prefix)) = prefix

\* s.endswith(suffix)
EndsWith(s, suffix) ==
    /\ Len(suffix) <= Len(s)
    /\ SubSeq(s, Len(s) - Len(suffix) + 1, Len(s)) = suffix

RECURSIVE StrContains(_, _)
\* sub in s
StrContains(s, sub) ==
    IF Len(s) < Len(sub) THEN FALSE
    ELSE IF StartsWith(s, sub) THEN TRUE
    ELSE StrContains(Tail(s), sub)

RECURSIVE StrReplace(_, _, _)
\* s.replace(old, new) for a non-empty old: leftmost non-overlapping matches
StrReplace(s, old, new) ==
    IF Len(s) < Len(old) THEN s
    ELSE IF StartsWith(s, old)
         THEN new \o StrReplace(SubSeq(s, Len(old) + 1, Len(s)), old, new)
         ELSE <<Head(s)>> \o StrReplace(Tail(s), old, new)

RECURSIVE StrSplit(_, _)
\* s.split(ch) for a one-character separator: the list of fields
StrSplit(s, ch) ==
    IF \A i \in 1..Len(s) : s[i] # ch THEN <<s>>
    ELSE LET k == CHOOSE i \in 1..Len(s) :
                      s[i] = ch /\ \A j \in 1..(i - 1) : s[j] # ch
         IN  <<SubSeq(s, 1, k - 1)>> \o StrSplit(SubSeq(s, k + 1, Len(s)), ch)

RECURSIVE StrJoin(_, _)
\* sep.join(parts)
StrJoin(parts, sep) ==
    IF parts = <<>> THEN <<>>
    ELSE IF Len(parts) = 1 THEN parts[1]
    ELSE parts[1] \o sep \o StrJoin(Tail(parts), sep)

\* s.rsplit(ch, 1): one field when ch is absent, else the text before and
\* the text after the last ch
RSplit1(s, ch) ==
    IF \A i \in 1..Len(s) : s[i] # ch THEN <<s>>
    ELSE LET k == CHOOSE i \in 1..Len(s) :
                      s[i] = ch /\ \A j \in (i + 1)..Len(s) : s[j] # ch
         IN  <<SubSeq(s, 1, k - 1), SubSeq(s, k + 1, Len(s))>>

DigitChars == <<"0", "1", "2", "3", "4", "5", "6", "7", "8", "9">>

RECURSIVE IntToStr(_)
\* str(n) of a non-negative integer, as an f-string formats it
IntToStr(n) ==
    IF n < 10 THEN <<DigitChars[n + 1]>>
    ELSE IntToStr(n \div 10) \o <<DigitChars[(n % 10) + 1]>>

(* ------------------------------ os.path ------------------------------- *)

Slash == <<"/">>

\* posixpath.join(a, p)
PathJoin(a, p) ==
    IF StartsWith(p, Slash) THEN p
    ELSE IF a = <<>> \/ EndsWith(a, Slash) THEN a \o p
    ELSE a \o Slash \o p

RECURSIVE NormComps(_, _, _)
\* the component loop of posixpath.normpath
NormComps(comps, new_comps, initial_slashes) ==
    IF comps = <<>> THEN new_comps
    ELSE LET comp == Head(comps)
             n    == Len(new_comps)
         IN  IF comp = <<>> \/ comp = <<".">>
             THEN NormComps(Tail(comps), new_comps, initial_slashes)
             ELSE IF \/ comp # <<".", ".">>
                     \/ (initial_slashes = 0 /\ n = 0)
                     \/ (n > 0 /\ new_comps[n] = <<".", ".">>)
             THEN NormComps(Tail(comps), Append(new_comps, comp), initial_slashes)
             ELSE IF n > 0
             THEN NormComps(Tail(comps), SubSeq(new_comps, 1, n - 1), initial_slashes)
             ELSE NormComps(Tail(comps), new_comps, initial_slashes)

\* posixpath.normpath(path)
NormPath(path) ==
    LET initial_slashes ==
            IF ~StartsWith(path, Slash) THEN 0
            ELSE IF StartsWith(path, <<"/", "/">>)
                    /\ ~StartsWith(path, <<"/", "/", "/">>) THEN 2
            ELSE 1
        comps  == NormComps(StrSplit(path, "/"), <<>>, initial_slashes)
        joined == StrJoin(comps, Slash)
        lead   == IF initial_slashes = 2 THEN <<"/", "/">>
                  ELSE IF initial_slashes = 1 THEN Slash ELSE <<>>
        out    == lead \o joined
    IN  IF out = <<>> THEN <<".">> ELSE out

(* ---------------------- BokehStaticFileHandler ------------------------ *)

Marker == <<"b", "o", "k", "e", "h">>

\* os.path.join(os.path.dirname(__file__), 'static'): the application's
\* static directory, the root the handler is configured with
AppStaticRoot == <<"/", "m", "/", "w", "e", "b", "/", "s", "t", "a", "t", "i", "c">>

\* os.path.join(os.path.dirname(server.__file__), "static"): the static
\* directory bundled with the server engine
BokehStaticRoot ==
    <<"/", "b", "o", "k", "e", "h", "/", "s", "e", "r", "v", "e", "r",
      "/", "s", "t", "a", "t", "i", "c">>

\* a handler that inspects path_parts[0]
PathPartsFirst(path_parts) == path_parts[1]

\* the field of a split that the code inspects: path_parts[-1]
PathPartsPick(path_parts) == path_parts[Len(path_parts)]

\* BokehStaticFileHandler._get_path_root(root, path)
GetPathRoot(root, path) ==
    LET path_parts == RSplit1(path, "/")
    IN  IF StrContains(PathPartsPick(path_parts), Marker)
        THEN BokehStaticRoot
        ELSE root

\* BokehStaticFileHandler.get_absolute_path(root, path): the overridden root
\* handed to StaticFileHandler.get_absolute_path, which returns
\* os.path.abspath(os.path.join(root, path))
GetAbsolutePath(root, path) ==
    NormPath(PathJoin(GetPathRoot(root, path), path))

\* the root BokehStaticFileHandler.validate_absolute_path hands to
\* StaticFileHandler.validate_absolute_path
ValidationRoot(root, absolute_path) == GetPathRoot(root, absolute_path)

\* the containment test of StaticFileHandler.validate_absolute_path under
\* the root chosen by the override: FALSE is the 403 answer
ValidateContained(root, absolute_path) ==
    LET r0 == NormPath(ValidationRoot(root, absolute_path))
        r  == IF EndsWith(r0, Slash) THEN r0 ELSE r0 \o Slash
    IN  StartsWith(absolute_path \o Slash, r)

(* ------------------------------- dict --------------------------------- *)

\* the keys of a dict
DictKeys(d) == {d[i][1] : i \in 1..Len(d)}

\* d[k] for a key of d
DictGet(d, k) == d[CHOOSE i \in 1..Len(d) : d[i][1] = k][2]

\* d[k] = v: an existing key keeps its position, a new key goes last
DictSet(d, k, v) ==
    IF k \in DictKeys(d)
    THEN [i \in 1..Len(d) |-> IF d[i][1] = k THEN <<k, v>> ELSE d[i]]
    ELSE Append(d, <<k, v>>)

RECURSIVE DictUpdate(_, _)
\* d.update(e), items of e taken in order
DictUpdate(d, e) ==
    IF e = <<>> THEN d
    ELSE DictUpdate(DictSet(d, e[1][1], e[1][2]), Tail(e))

\* a key of the config mapping that may be missing
Absent == [has |-> FALSE, d |-> <<>>]
Present(d) == [has |-> TRUE, d |-> d]

\* config.get(key, {}) for a dict-valued key: the stored dict object when
\* the key is there, a fresh empty dict otherwise
GetOrEmpty(opt) == IF opt.has THEN opt.d ELSE <<>>

(* --------------------------- input domains ---------------------------- *)

\* Python None for the port and the host
None == -1
HostNone == <<"None">>

WildcardHost == <<"0", ".", "0", ".", "0", ".", "0">>
LoopbackHost == <<"1", "2", "7", ".", "0", ".", "0", ".", "1">>

\* values of config['host']
ConfigHosts ==
    { HostNone, <<>>, WildcardHost,
      <<"1", "0", ".", "0", ".", "0", ".", "0">>,
      <<"w", "e", "b">> }

\* values of config['port']
ConfigPorts == {None, 0, 80}

\* values get_next_port() may return
AllocPorts == {5000, 5001}

\* values of os.name
OsNames == {"nt", "posix"}

\* values of config['web_handlers']
ConfigWebHandlers == {Absent, Present(<<>>), Present(<< <<"/x", "hCfg">> >>)}

\* values of config['bokeh_apps']
ConfigBokehApps ==
    {Absent, Present(<<>>), Present(<< <<"/x", "aCfg">>, <<"/c", "aCfg">> >>)}

\* module names a config may list in extra_discovery_modules
ModNames == {"mod_a", "mod_b", "missing", "bad_import", "bad_syntax"}

\* importlib.import_module(mod_name) in the environment explored:
\* exc is the exception class raised ("none": the module object is returned),
\* web_handlers / bokeh_apps are the module's attributes (Absent: no such
\* attribute)
ImportModule(mod_name) ==
    CASE mod_name = "mod_a" ->
            [exc |-> "none",
             web_handlers |-> Present(<< <<"/x", "hA">>, <<"/a", "hA">> >>),
             bokeh_apps   |-> Present(<< <<"/x", "aA">>, <<"/a", "aA">> >>)]
      [] mod_name = "mod_b" ->
            [exc |-> "none",
             web_handlers |-> Present(<< <<"/x", "hB">> >>),
             bokeh_apps   |-> Present(<< <<"/x", "aB">> >>)]
      [] mod_name = "missing" ->
            [exc |-> "ModuleNotFoundError",
             web_handlers |-> Absent, bokeh_apps |-> Absent]
      [] mod_name = "bad_import" ->
            [exc |-> "ImportError",
             web_handlers |-> Absent, bokeh_apps |-> Absent]
      [] OTHER ->
            [exc |-> "SyntaxError",
             web_handlers |-> Absent, bokeh_apps |-> Absent]

\* whether `except ImportError` catches an exception of class exc
IsImportError(exc) == exc \in {"ImportError", "ModuleNotFoundError"}

\* sequences over S of length at most n
SeqsUpTo(S, n) == UNION {[1..k -> S] : k \in 0..n}

\* the handlers table of the indexhandler module as first imported
BuiltinHandlers == << <<"/", "IndexHandler">> >>

\* tokens the requested static paths are built from
PathTokens ==
    { Marker, <<"b", "o", "k">>, <<"e", "h">>, Slash, <<".">>, <<"a">> }

(* ------------------------------- state -------------------------------- *)

VARIABLES
    config,          \* self._config, the caller's mapping (mutated in place)
    config0,         \* the config as the caller supplied it (history)
    os_name,         \* os.name
    index_handlers,  \* indexhandler.handlers, a module-level dict
    pc,              \* position in the actor's lifecycle
    exc,             \* class of the exception the last lifecycle call raised
    destroyed,       \* __pre_destroy__ has run
    web_server,      \* self._web_server: 0 for None, else an index of servers
    servers,         \* the Server objects constructed so far
    web_address,     \* self._web_address ([set |-> FALSE]: no such attribute)
    host,            \* local `host` of __post_create__
    port,            \* local `port` of __post_create__
    retrial,         \* local `retrial` of __post_create__
    handlers,        \* local `handlers` of __post_create__
    extra_patterns,  \* local `extra_patterns` of __post_create__
    alloc_log,       \* ports get_next_port has returned, in order (history)
    bind_log,        \* ports of the Server(...) calls made, in order (history)
    outcome_log,     \* how each pass of the try block ended, in order (history)
    instance,        \* number of WebActor instances created in this process
    addr_ret,        \* outcome of the last get_web_address call
    path,            \* the path of the static request being served
    absolute_path,   \* result of get_absolute_path for it
    res_root,        \* root chosen inside get_absolute_path
    val_root,        \* root chosen inside validate_absolute_path
    spc              \* position of the static request

lifecycle_vars ==
    <<config, config0, os_name, index_handlers, pc, exc, destroyed, web_server,
      servers, web_address, host, port, retrial, handlers, extra_patterns,
      alloc_log, bind_log, outcome_log, instance, addr_ret>>

static_vars == <<path, absolute_path, res_root, val_root, spc>>

vars == <<lifecycle_vars, static_vars>>

NoAddress == [set |-> FALSE, s |-> <<>>]
NoReturn  == [called |-> FALSE, exc |-> "none", value |-> <<>>]

\* the static request fields while no request is being served
StaticIdle ==
    /\ path = <<>>
    /\ absolute_path = <<>>
    /\ res_root = <<>>
    /\ val_root = <<>>
    /\ spc = "idle"

\* the actor class has been imported, no instance exists yet; the caller
\* holds the config it is about to pass
Init ==
    /\ \E h \in ConfigHosts, p \in ConfigPorts,
          wh \in ConfigWebHandlers, ba \in ConfigBokehApps,
          mods \in SeqsUpTo(ModNames, MaxMods) :
            config = [host |-> h, port |-> p, web_handlers |-> wh,
                      bokeh_apps |-> ba, extra_discovery_modules |-> mods]
    /\ config0 = config
    /\ os_name \in OsNames
    /\ index_handlers = BuiltinHandlers
    /\ pc = "new"
    /\ exc = "none"
    /\ destroyed = FALSE
    /\ web_server = 0
    /\ servers = <<>>
    /\ web_address = NoAddress
    /\ host = <<>>
    /\ port = None
    /\ retrial = 0
    /\ handlers = <<>>
    /\ extra_patterns = <<>>
    /\ alloc_log = <<>>
    /\ bind_log = <<>>
    /\ outcome_log = <<>>
    /\ instance = 1
    /\ addr_ret = NoReturn
    /\ StaticIdle

(* ------------------------- WebActor.__init__ -------------------------- *)

RECURSIVE Discover(_, _, _)
\* the loop over extra_mod_names: the two working dicts after it, and the
\* class of the exception that left it ("none": the loop ran to its end)
Discover(mod_names, web_handlers, bokeh_apps) ==
    IF mod_names = <<>>
    THEN [exc |-> "none", web_handlers |-> web_handlers, bokeh_apps |-> bokeh_apps]
    ELSE LET web_mod == ImportModule(Head(mod_names))
         IN  IF web_mod.exc = "none"
             THEN Discover(Tail(mod_names),
                           DictUpdate(web_handlers, GetOrEmpty(web_mod.web_handlers)),
                           DictUpdate(bokeh_apps, GetOrEmpty(web_mod.bokeh_apps)))
             ELSE IF IsImportError(web_mod.exc)
             THEN Discover(Tail(mod_names), web_handlers, bokeh_apps)
             ELSE [exc |-> web_mod.exc, web_handlers |-> web_handlers,
                   bokeh_apps |-> bokeh_apps]

\* a constructor without line 65: a missing key stays missing
StoreBokehAppsMissing(old, bokeh_apps) ==
    IF old.has THEN Present(bokeh_apps) ELSE old

\* what line 65 leaves under config['bokeh_apps'] once the loop has ended
\* normally with the working dict bokeh_apps
StoreBokehApps(old, bokeh_apps) == Present(bokeh_apps)

\* WebActor.__init__(config)
Construct ==
    /\ pc = "new"
    /\ LET r == Discover(config.extra_discovery_modules,
                         GetOrEmpty(config.web_handlers),
                         GetOrEmpty(config.bokeh_apps))
       IN  /\ config' =
                [config EXCEPT
                    \* the working dicts are the caller's dict objects when
                    \* the keys are there: update() changes them in place
                    !.web_handlers = IF @.has THEN Present(r.web_handlers) ELSE @,
                    !.bokeh_apps   = IF r.exc = "none"
                                     THEN StoreBokehApps(@, r.bokeh_apps)
                                     ELSE IF @.has THEN Present(r.bokeh_apps) ELSE @]
           /\ exc' = r.exc
           /\ pc' = IF r.exc = "none" THEN "constructed" ELSE "init_raised"
    /\ web_server' = 0
    /\ UNCHANGED <<config0, os_name, index_handlers, destroyed, servers,
                   web_address, host, port, retrial, handlers, extra_patterns,
                   alloc_log, bind_log, outcome_log, instance, addr_ret,
                   static_vars>>

(* ----------------------- WebActor.__post_create__ ---------------------- *)

\* a budget that is off by one
RetrialsOff == 5 + 1

\* the initial value of `retrial`
Retrials == 5

\* truth value of a config port, as `or` tests it
PortTruthy(p) == p # None /\ p # 0

\* truth value of a config host, as `or` tests it
HostTruthy(h) == h # HostNone /\ h # <<>>

\* a loop that draws a new port before every attempt
PortIsNoneAlways(p) == TRUE

\* the test `port is None` of line 94
PortIsNone(p) == p = None

\* a handler that never takes the port for pinned
PortPinnedNever(p) == FALSE

\* the test `port is not None` of line 107
PortPinned(p) == p # None

HttpPrefix == <<"h", "t", "t", "p", ":", "/", "/">>

\* an address stored with the wildcard host already rewritten
FormatAddressAtStorage(h, p) ==
    HttpPrefix
    \o (IF os_name = "nt" /\ h = <<"0", ".", "0", ".", "0", ".", "0">>
        THEN <<"1", "2", "7", ".", "0", ".", "0", ".", "1">> ELSE h)
    \o <<":">> \o IntToStr(p)

\* f'http://{host}:{port}'
FormatAddress(h, p) == HttpPrefix \o h \o <<":">> \o IntToStr(p)

\* the route of the static handler, first element of extra_patterns
StaticRoute == <<"[^\\?\\&]*/static/(.*)", "BokehStaticFileHandler", "static_path">>

\* the `handlers` dict handed to Server: one Application per bokeh app
AppHandlers(bokeh_apps) ==
    [i \in 1..Len(bokeh_apps) |->
        <<bokeh_apps[i][1], <<"Application", bokeh_apps[i][2]>>>>]

\* a route list with the static route appended after the handlers
ExtraPatternsStaticLast(web_handlers) ==
    [i \in 1..Len(web_handlers) |->
        <<web_handlers[i][1], web_handlers[i][2], "handler_kwargs">>]
    \o <<StaticRoute>>

\* extra_patterns: the static route, then one route per item of web_handlers
ExtraPatterns(web_handlers) ==
    <<StaticRoute>> \o
    [i \in 1..Len(web_handlers) |->
        <<web_handlers[i][1], web_handlers[i][2], "handler_kwargs">>]

\* lines 68-91: everything before the while loop.  get_next_port is called
\* when the config port is falsy; its answer is any port of AllocPorts.
PostCreateSetup ==
    /\ pc = "constructed"
    /\ ~destroyed
    /\ \E next_port \in AllocPorts :
        LET h  == IF HostTruthy(config.host) THEN config.host ELSE WildcardHost
            p  == IF PortTruthy(config.port) THEN config.port ELSE next_port
            wh == DictUpdate(index_handlers, GetOrEmpty(config.web_handlers))
        IN  /\ host' = h
            /\ port' = p
            /\ alloc_log' = IF PortTruthy(config.port) THEN alloc_log
                            ELSE Append(alloc_log, next_port)
            /\ web_address' = [set |-> TRUE, s |-> FormatAddress(h, p)]
            /\ index_handlers' = wh
            /\ handlers' = AppHandlers(GetOrEmpty(config.bokeh_apps))
            /\ extra_patterns' = ExtraPatterns(wh)
    /\ retrial' = Retrials
    /\ pc' = "binding"
    /\ UNCHANGED <<config, config0, os_name, exc, destroyed, web_server,
                   servers, bind_log, outcome_log, instance, addr_ret,
                   static_vars>>

\* what one pass through the try block can meet: the Server constructor or
\* Server.start raising OSError, either raising another error, or both
\* returning
BindOutcomes ==
    {"ctor_oserror", "ctor_error", "start_oserror", "start_error", "started"}

\* the Server object line 97 constructs
NewServer(h, p, started) ==
    [address |-> h, port |-> p, handlers |-> handlers,
     extra_patterns |-> extra_patterns, started |-> started, stops |-> 0]

\* the outcomes in which the try block raised OSError
OSErrorOutcomes == {"ctor_oserror", "start_oserror"}

\* class of the exception a failed pass raised
ExcClass(outcome) == IF outcome \in OSErrorOutcomes THEN "OSError" ELSE "Exception"

\* a handler that retries whatever the error class, unless the port is pinned
AfterAttemptRetryAll(outcome, p) ==
    IF outcome = "started" THEN "break"
    ELSE IF outcome \in OSErrorOutcomes /\ PortPinned(p) THEN "raise"
    ELSE "retry"

\* a handler that swallows the bind error and leaves the loop
AfterAttemptSwallow(outcome, p) ==
    IF outcome = "started" THEN "break"
    ELSE IF outcome \notin OSErrorOutcomes THEN "propagate"
    ELSE "break"

\* lines 103-111: where control goes after one pass of the try block.
\* "break": line 105; "propagate": the error is no OSError and leaves
\* __post_create__; "raise": line 108; "retry": lines 109-111
AfterAttempt(outcome, p) ==
    IF outcome = "started" THEN "break"
    ELSE IF outcome \notin OSErrorOutcomes THEN "propagate"
    ELSE IF PortPinned(p) THEN "raise"
    ELSE "retry"

\* lines 92-111: one pass of the while loop
BindAttempt ==
    /\ pc = "binding"
    /\ ~destroyed
    /\ retrial # 0
    /\ \E next_port \in AllocPorts, outcome \in BindOutcomes :
        LET p == IF PortIsNone(port) THEN next_port ELSE port
            constructed == outcome \in {"start_oserror", "start_error", "started"}
            act == AfterAttempt(outcome, p)
        IN  /\ port' = p
            /\ alloc_log' = IF PortIsNone(port) THEN Append(alloc_log, next_port)
                            ELSE alloc_log
            /\ bind_log' = Append(bind_log, p)
            /\ outcome_log' = Append(outcome_log, outcome)
            /\ IF constructed
               THEN /\ servers' = Append(servers, NewServer(host, p, outcome = "started"))
                    /\ web_server' = Len(servers) + 1
               ELSE UNCHANGED <<servers, web_server>>
            /\ IF act = "break"
               THEN /\ pc' = "running"
                    /\ UNCHANGED <<exc, retrial>>
               ELSE IF act \in {"propagate", "raise"}
               THEN /\ pc' = "start_raised"
                    /\ exc' = ExcClass(outcome)
                    /\ UNCHANGED retrial
               ELSE /\ retrial' = retrial - 1
                    /\ IF retrial - 1 = 0
                       THEN pc' = "start_raised" /\ exc' = ExcClass(outcome)
                       ELSE pc' = "binding" /\ UNCHANGED exc
    /\ UNCHANGED <<config, config0, os_name, index_handlers, destroyed,
                   web_address, host, handlers, extra_patterns, instance,
                   addr_ret, static_vars>>

(* ----------------------- WebActor.__pre_destroy__ --------------------- *)

\* a destructor that never finds a server
HasServerNever(ws) == FALSE

\* the test of line 114
HasServer(ws) == ws # 0

\* __pre_destroy__, on an instance that was constructed, whether its
\* __post_create__ was never called, raised, or returned
PreDestroy ==
    /\ pc \in {"constructed", "start_raised", "running"}
    /\ ~destroyed
    /\ destroyed' = TRUE
    /\ servers' = IF HasServer(web_server)
                  THEN [servers EXCEPT ![web_server].stops = @ + 1]
                  ELSE servers
    /\ UNCHANGED <<config, config0, os_name, index_handlers, pc, exc,
                   web_server, web_address, host, port, retrial, handlers,
                   extra_patterns, alloc_log, bind_log, outcome_log, instance,
                   addr_ret, static_vars>>

(* ----------------------- WebActor.get_web_address --------------------- *)

\* the value get_web_address returns for a stored address
PublicAddress(stored, osname) ==
    IF osname = "nt" THEN StrReplace(stored, WildcardHost, LoopbackHost)
    ELSE stored

\* get_web_address(), on a live instance
GetWebAddress ==
    /\ pc \in {"constructed", "start_raised", "running"}
    /\ ~destroyed
    /\ addr_ret' =
         IF web_address.set
         THEN [called |-> TRUE, exc |-> "none",
               value |-> PublicAddress(web_address.s, os_name)]
         ELSE [called |-> TRUE, exc |-> "AttributeError", value |-> <<>>]
    /\ UNCHANGED <<config, config0, os_name, index_handlers, pc, exc, destroyed,
                   web_server, servers, web_address, host, port, retrial,
                   handlers, extra_patterns, alloc_log, bind_log, outcome_log,
                   instance, static_vars>>

Next ==
    \/ Construct
    \/ PostCreateSetup
    \/ BindAttempt
    \/ PreDestroy
    \/ GetWebAddress

Spec == Init /\ [][Next]_vars

(* ------------- several instances, one after the other ---------------- *)

\* the configs explored when a process creates more than one instance
ConfigsTwo ==
    {[host |-> HostNone, port |-> p, web_handlers |-> wh, bokeh_apps |-> ba,
      extra_discovery_modules |-> <<>>] :
        p \in {None, 80}, wh \in ConfigWebHandlers, ba \in ConfigBokehApps}

InitTwo ==
    /\ config \in ConfigsTwo
    /\ config0 = config
    /\ os_name \in OsNames
    /\ index_handlers = BuiltinHandlers
    /\ pc = "new"
    /\ exc = "none"
    /\ destroyed = FALSE
    /\ web_server = 0
    /\ servers = <<>>
    /\ web_address = NoAddress
    /\ host = <<>>
    /\ port = None
    /\ retrial = 0
    /\ handlers = <<>>
    /\ extra_patterns = <<>>
    /\ alloc_log = <<>>
    /\ bind_log = <<>>
    /\ outcome_log = <<>>
    /\ instance = 1
    /\ addr_ret = NoReturn
    /\ StaticIdle

\* start(config, address) once more in the same process, after the
\* __post_create__ of the previous instance has ended: a new WebActor with
\* its own config.  The indexhandler module, os.name and the Server objects
\* that exist stay as they are; the variables of the instance and the
\* histories start afresh.
NewInstance ==
    /\ instance < MaxInstances
    /\ pc \in {"running", "start_raised"}
    /\ instance' = instance + 1
    /\ config' \in ConfigsTwo
    /\ config0' = config'
    /\ pc' = "new"
    /\ exc' = "none"
    /\ destroyed' = FALSE
    /\ web_server' = 0
    /\ web_address' = NoAddress
    /\ host' = <<>>
    /\ port' = None
    /\ retrial' = 0
    /\ handlers' = <<>>
    /\ extra_patterns' = <<>>
    /\ alloc_log' = <<>>
    /\ bind_log' = <<>>
    /\ outcome_log' = <<>>
    /\ addr_ret' = NoReturn
    /\ UNCHANGED <<os_name, index_handlers, servers, static_vars>>

NextTwo ==
    \/ Construct
    \/ PostCreateSetup
    \/ BindAttempt
    \/ PreDestroy
    \/ GetWebAddress
    \/ NewInstance

SpecTwo == InitTwo /\ [][NextTwo]_vars

(* ------------------ static requests on a running server --------------- *)

\* the running instance the static requests are served by: the actor built
\* from an empty config, bound at its first attempt
InitStatic ==
    /\ config = [host |-> HostNone, port |-> None, web_handlers |-> Absent,
                 bokeh_apps |-> Present(<<>>), extra_discovery_modules |-> <<>>]
    /\ config0 = [config EXCEPT !.bokeh_apps = Absent]
    /\ os_name = "posix"
    /\ index_handlers = BuiltinHandlers
    /\ pc = "running"
    /\ exc = "none"
    /\ destroyed = FALSE
    /\ web_server = 1
    /\ servers = << [address |-> WildcardHost, port |-> 5000, handlers |-> <<>>,
                     extra_patterns |-> ExtraPatterns(BuiltinHandlers),
                     started |-> TRUE, stops |-> 0] >>
    /\ web_address = [set |-> TRUE, s |-> FormatAddress(WildcardHost, 5000)]
    /\ host = WildcardHost
    /\ port = 5000
    /\ retrial = Retrials
    /\ handlers = <<>>
    /\ extra_patterns = ExtraPatterns(BuiltinHandlers)
    /\ alloc_log = <<5000>>
    /\ bind_log = <<5000>>
    /\ outcome_log = <<"started">>
    /\ instance = 1
    /\ addr_ret = NoReturn
    /\ path \in {Flatten(ts) : ts \in SeqsUpTo(PathTokens, MaxPathTokens)}
    /\ absolute_path = <<>>
    /\ res_root = <<>>
    /\ val_root = <<>>
    /\ spc = "request"

\* StaticFileHandler.get calls get_absolute_path(self.root, self.path)
StaticGetAbsolutePath ==
    /\ spc = "request"
    /\ pc = "running"
    /\ res_root' = GetPathRoot(AppStaticRoot, path)
    /\ absolute_path' = GetAbsolutePath(AppStaticRoot, path)
    /\ spc' = "resolved"
    /\ UNCHANGED <<lifecycle_vars, path, val_root>>

\* ... and then validate_absolute_path(self.root, absolute_path)
StaticValidateAbsolutePath ==
    /\ spc = "resolved"
    /\ val_root' = ValidationRoot(AppStaticRoot, absolute_path)
    /\ spc' = IF ValidateContained(AppStaticRoot, absolute_path)
              THEN "validated" ELSE "forbidden"
    /\ UNCHANGED <<lifecycle_vars, path, absolute_path, res_root>>

NextStatic ==
    \/ StaticGetAbsolutePath
    \/ StaticValidateAbsolutePath

SpecStatic == InitStatic /\ [][NextStatic]_vars

\* the instance of InitStatic is a state the lifecycle reaches
StaticInstanceUnreached ==
    ~ /\ config = [host |-> HostNone, port |-> None, web_handlers |-> Absent,
                   bokeh_apps |-> Present(<<>>), extra_discovery_modules |-> <<>>]
      /\ config0 = [config EXCEPT !.bokeh_apps = Absent]
      /\ os_name = "posix"
      /\ pc = "running"
      /\ ~destroyed
      /\ web_server = 1
      /\ servers = << [address |-> WildcardHost, port |-> 5000, handlers |-> <<>>,
                       extra_patterns |-> ExtraPatterns(BuiltinHandlers),
                       started |-> TRUE, stops |-> 0] >>
      /\ web_address = [set |-> TRUE, s |-> FormatAddress(WildcardHost, 5000)]
      /\ host = WildcardHost /\ port = 5000 /\ retrial = Retrials
      /\ handlers = <<>>
      /\ extra_patterns = ExtraPatterns(BuiltinHandlers)
      /\ index_handlers = BuiltinHandlers
      /\ alloc_log = <<5000>> /\ bind_log = <<5000>>
      /\ outcome_log = <<"started">> /\ instance = 1
      /\ addr_ret = NoReturn /\ exc = "none"

(* ------------------------------ claims -------------------------------- *)

\* the config the caller supplied names no port
AutoPort == config0.port = None

\* __post_create__ has ended, by returning or by raising
StartEnded == pc \in {"running", "start_raised"}

\* C1: without an explicit port a bind error is retried: __post_create__
\* raises OSError only once 5 bind attempts have failed.
C1_BindErrorRetried ==
    (AutoPort /\ pc = "start_raised" /\ exc = "OSError")
        => Len(bind_log) = Retrials

\* C2: with an explicit port, a bind error on the first attempt ends
\* __post_create__ at once: one bind attempt, the retry counter still 5,
\* and get_next_port never called.
C2_ExplicitPortFailsFast ==
    (~AutoPort /\ pc = "start_raised" /\ exc = "OSError")
        => /\ Len(bind_log) = 1
           /\ retrial = Retrials
           /\ alloc_log = <<>>

\* C3: without an explicit port every bind attempt has its own preceding
\* get_next_port call and uses the port that call returned, and when
\* __post_create__ ends there are as many calls as attempts.
C3_AllocPerAttempt ==
    AutoPort =>
        /\ Len(bind_log) <= Len(alloc_log)
        /\ Len(alloc_log) <= Len(bind_log) + 1
        /\ \A i \in 1..Len(bind_log) : bind_log[i] = alloc_log[i]
        /\ StartEnded => Len(alloc_log) = Len(bind_log)

\* C3 witness: an auto-assigned port whose bind attempt was made and failed
C3_Witness ==
    /\ AutoPort
    /\ pc = "start_raised"
    /\ exc = "OSError"
    /\ Len(bind_log) = 1
    /\ bind_log = alloc_log

\* C4: __pre_destroy__ on an instance whose __post_create__ was never
\* called or raised does not call stop() on any server.
C4_StopWithoutStartIsNoOp ==
    (destroyed /\ pc \in {"constructed", "start_raised"})
        => \A i \in 1..Len(servers) : servers[i].stops = 0

\* C5: get_web_address returns http://127.0.0.1:p on nt when the bind host
\* is 0.0.0.0, and http://h:p exactly in every other case.
C5_PublicAddress ==
    (addr_ret.called /\ addr_ret.exc = "none")
        => addr_ret.value =
             HttpPrefix
             \o (IF os_name = "nt" /\ host = WildcardHost
                 THEN LoopbackHost ELSE host)
             \o <<":">> \o IntToStr(port)

\* indexes of the listed plugin modules that resolve
ResolvedIdx ==
    {i \in 1..Len(config0.extra_discovery_modules) :
        ImportModule(config0.extra_discovery_modules[i]).exc = "none"}

\* what the i-th listed module exports as bokeh_apps
ModApps(i) == GetOrEmpty(ImportModule(config0.extra_discovery_modules[i]).bokeh_apps)

\* C6: whatever the listed modules and their resolution outcomes,
\* construction does not raise, and the app registry of every resolvable
\* module is merged, the modules after an unresolvable one included.
C6_DiscoveryNeverAborts ==
    pc # "new" =>
        /\ pc # "init_raised"
        /\ \A i \in ResolvedIdx :
              DictKeys(ModApps(i)) \subseteq DictKeys(GetOrEmpty(config.bokeh_apps))

\* the handler a route list registers for pattern p ("none": no route)
RouteFor(routes, p) ==
    IF \E i \in 1..Len(routes) : routes[i][1] = p
    THEN routes[CHOOSE i \in 1..Len(routes) : routes[i][1] = p][2]
    ELSE "none"

\* C7: with plugin modules [A, B] both exporting a web handler for /x, the
\* routes of every server __post_create__ constructs map /x to B's handler,
\* whether or not the config has a web_handlers mapping.
C7_LastPluginHandlerWins ==
    config0.extra_discovery_modules = <<"mod_a", "mod_b">>
        => \A i \in 1..Len(servers) :
              RouteFor(servers[i].extra_patterns, "/x") = "hB"

\* the patterns any registry of the explored inputs uses
Patterns == {"/", "/x", "/a", "/c"}

\* the app the claim expects for pattern p ("none": no app)
ExpectedApp(p) ==
    LET exporters == {i \in ResolvedIdx : p \in DictKeys(ModApps(i))}
        supplied  == GetOrEmpty(config0.bokeh_apps)
    IN  IF exporters # {}
        THEN DictGet(ModApps(CHOOSE i \in exporters : \A j \in exporters : j <= i), p)
        ELSE IF p \in DictKeys(supplied) THEN DictGet(supplied, p)
        ELSE "none"

\* C8: for every pattern the app a server is constructed with is the one of
\* the last resolvable module exporting the pattern, else the one the config
\* supplied; a module's entry wins over the config's.
C8_AppMergeOrder ==
    \A i \in 1..Len(servers) : \A p \in Patterns :
        IF ExpectedApp(p) = "none"
        THEN p \notin DictKeys(servers[i].handlers)
        ELSE /\ p \in DictKeys(servers[i].handlers)
             /\ DictGet(servers[i].handlers, p) = <<"Application", ExpectedApp(p)>>

\* C8 witness: the config and both modules supply an app for /x, and the
\* server got the last module's app for /x and the config's app for /c
C8_Witness ==
    /\ Len(servers) = 1
    /\ "/x" \in DictKeys(GetOrEmpty(config0.bokeh_apps))
    /\ config0.extra_discovery_modules = <<"mod_a", "mod_b">>
    /\ DictGet(servers[1].handlers, "/x") = <<"Application", "aB">>
    /\ DictGet(servers[1].handlers, "/c") = <<"Application", "aCfg">>

\* the marker occurs in s after the last "/" of s
MarkerInFinalSegment(s) ==
    \E k \in 1..Len(s) :
        /\ k + Len(Marker) - 1 <= Len(s)
        /\ SubSeq(s, k, k + Len(Marker) - 1) = Marker
        /\ \A j \in k..Len(s) : s[j] # "/"

\* C9: the root the static handler uses is the engine's bundled directory
\* when the final "/"-separated segment of the path contains "bokeh", and
\* the configured root otherwise, a marker in an earlier segment included.
C9_RootFromFinalSegment ==
    /\ spc # "request" =>
          res_root = IF MarkerInFinalSegment(path)
                     THEN BokehStaticRoot ELSE AppStaticRoot
    /\ spc \in {"validated", "forbidden"} =>
          val_root = IF MarkerInFinalSegment(absolute_path)
                     THEN BokehStaticRoot ELSE AppStaticRoot

\* C9 witness: the marker only in an earlier segment, the configured root kept
C9_Witness ==
    /\ spc = "resolved"
    /\ path = Marker \o Slash \o <<"a">>
    /\ res_root = AppStaticRoot

\* C10: for every requested path, get_absolute_path and
\* validate_absolute_path (given the absolute path the former produced)
\* choose the same root.
C10_RootsAgree ==
    spc \in {"validated", "forbidden"} => val_root = res_root

\* the outcomes in which the try block raised an error that is no OSError
OtherErrorOutcomes == {"ctor_error", "start_error"}

\* C11: a bind attempt that fails with an error other than OSError is the
\* last attempt: the error leaves __post_create__ at once, whether the port
\* was explicit or auto-assigned.
C11_OtherErrorNotRetried ==
    \A i \in 1..Len(outcome_log) :
        outcome_log[i] \in OtherErrorOutcomes
            => /\ i = Len(outcome_log)
               /\ pc = "start_raised"
               /\ exc = "Exception"

\* C11 witness: an auto-assigned port, Server.start raised a non-OSError
C11_Witness ==
    /\ AutoPort
    /\ outcome_log = <<"start_error">>
    /\ pc = "start_raised"
    /\ exc = "Exception"

\* every lifecycle variable but addr_ret
lifecycle_but_ret ==
    <<config, config0, os_name, index_handlers, pc, exc, destroyed, web_server,
      servers, web_address, host, port, retrial, handlers, extra_patterns,
      alloc_log, bind_log, outcome_log, instance>>

\* C12: get_web_address changes no state, the stored address holds the
\* true bind host (0.0.0.0 stays 0.0.0.0, also on nt), and once
\* __post_create__ has stored the address every call returns the same value.
C12_AddressQueryPure ==
    /\ [](web_address.set =>
            /\ web_address.s = HttpPrefix \o host \o <<":">> \o IntToStr(port)
            /\ \A i \in 1..Len(servers) : servers[i].address = host)
    /\ [][ /\ (addr_ret' # addr_ret => UNCHANGED lifecycle_but_ret)
           /\ (web_address.set => web_address' = web_address)
           /\ ((addr_ret.called /\ addr_ret.exc = "none") => addr_ret' = addr_ret)
         ]_vars

\* C12 witness: on nt with the wildcard host, a call returned the loopback
\* form while the stored address still has 0.0.0.0
C12_Witness ==
    /\ os_name = "nt"
    /\ host = WildcardHost
    /\ addr_ret.called
    /\ addr_ret.exc = "none"
    /\ web_address.s = HttpPrefix \o WildcardHost \o <<":">> \o IntToStr(port)
    /\ addr_ret.value = HttpPrefix \o LoopbackHost \o <<":">> \o IntToStr(port)

\* C13: when __post_create__ has returned, host and port of the stored
\* address are those the running server was constructed with.
C13_AddressMatchesBinding ==
    pc = "running" =>
        /\ web_server # 0
        /\ servers[web_server].started
        /\ web_address.set
        /\ web_address.s =
             HttpPrefix \o servers[web_server].address \o <<":">>
             \o IntToStr(servers[web_server].port)

\* C13 witness: a running server on an auto-assigned port
C13_Witness ==
    /\ pc = "running"
    /\ AutoPort
    /\ servers[web_server].port = 5001
    /\ web_address.s = HttpPrefix \o WildcardHost \o <<":", "5", "0", "0", "1">>

\* C14: __post_create__ returns normally only with a server constructed and
\* started; when no bind attempt succeeded it ends by raising.
C14_NormalReturnMeansStarted ==
    /\ pc = "running" =>
          /\ web_server # 0
          /\ servers[web_server].started
          /\ outcome_log # <<>>
          /\ outcome_log[Len(outcome_log)] = "started"
    /\ (StartEnded /\ \A i \in 1..Len(outcome_log) : outcome_log[i] # "started")
          => (pc = "start_raised" /\ exc # "none")

\* C14 witness: the explicit port 80 could not be bound, the error left
\* __post_create__ and no server object exists
C14_Witness ==
    /\ config0.port = 80
    /\ outcome_log = <<"ctor_oserror">>
    /\ pc = "start_raised"
    /\ exc = "OSError"
    /\ web_server = 0

\* C15: __post_create__ ends after at most 5 bind attempts: inside the loop
\* the attempts made and the remaining budget add up to 5, the budget is
\* positive and the next pass can always be taken.
C15_BoundedAttempts ==
    /\ Len(bind_log) <= 5
    /\ pc = "binding" =>
          /\ retrial >= 1
          /\ retrial + Len(bind_log) = 5
          /\ ENABLED BindAttempt

\* C15 witness: the loop was left by its first pass
C15_Witness ==
    /\ pc = "running"
    /\ Len(bind_log) = 1
    /\ retrial = 5

\* C16: when the config supplies a port, 0 included, every bind attempt
\* uses that port and get_next_port is never called.
C16_ConfiguredPortUsed ==
    config0.port # None =>
        /\ alloc_log = <<>>
        /\ \A i \in 1..Len(bind_log) : bind_log[i] = config0.port

\* C17: web handlers of plugin modules never reach the plain routes: every
\* server's routes are the static route, then the built-in handlers
\* overwritten by the handlers the config supplied, and the caller's
\* web_handlers mapping is unchanged by construction.
C17_PluginHandlersKeptOut ==
    /\ config.web_handlers = config0.web_handlers
    /\ \A i \in 1..Len(servers) :
          LET plain == DictUpdate(BuiltinHandlers, GetOrEmpty(config0.web_handlers))
          IN  /\ Len(servers[i].extra_patterns) = Len(plain) + 1
              /\ \A j \in 1..Len(plain) :
                    /\ servers[i].extra_patterns[j + 1][1] = plain[j][1]
                    /\ servers[i].extra_patterns[j + 1][2] = plain[j][2]

\* C18: in a cycle whose __post_create__ returned, exactly one server object
\* was constructed, and __pre_destroy__ calls stop() exactly once, on it.
C18_OneServerPerCycle ==
    pc = "running" =>
        /\ Len(servers) = 1
        /\ web_server = 1
        /\ servers[1].started
        /\ servers[1].stops = IF destroyed THEN 1 ELSE 0

\* C18 witness: started, then destroyed, the one server stopped once
C18_Witness ==
    /\ pc = "running"
    /\ destroyed
    /\ Len(servers) = 1
    /\ servers[1].stops = 1

\* C20: the routes of every server start with the static route, which
\* occurs once, followed by one route per pattern of the merged plain
\* handler registry.
C20_StaticRouteFirst ==
    \A i \in 1..Len(servers) :
        LET ep     == servers[i].extra_patterns
            merged == DictKeys(BuiltinHandlers)
                      \cup DictKeys(GetOrEmpty(config.web_handlers))
        IN  /\ ep[1] = StaticRoute
            /\ \A j \in 2..Len(ep) : ep[j][1] # StaticRoute[1]
            /\ Len(ep) = 1 + Cardinality(merged)
            /\ {ep[j][1] : j \in 2..Len(ep)} = merged

\* C20 witness: a configured handler and a plugin handler beside the
\* built-in one, all after the static route
C20_Witness ==
    /\ Len(servers) = 1
    /\ Len(servers[1].extra_patterns) = 4
    /\ servers[1].extra_patterns[1] = StaticRoute
    /\ servers[1].extra_patterns[3] = <<"/x", "hA", "handler_kwargs">>
    /\ servers[1].extra_patterns[4] = <<"/a", "hA", "handler_kwargs">>

\* C19: an instance created after another one registers no route for /x
\* when its own config holds no handler for /x.
C19_InstancesIsolated ==
    ( /\ instance = 2
      /\ pc \in {"binding", "running", "start_raised"}
      /\ "/x" \notin DictKeys(GetOrEmpty(config.web_handlers)) )
        => RouteFor(extra_patterns, "/x") = "none"

====
